---- MODULE Spec2Model ----
(***************************************************************************)
(* Model of the wallet connection flow of react-mn-wallet-connect:         *)
(* App (useState pair, handleConnect, handleDisconnect) and WalletCard.    *)
(* JavaScript values are modelled as strings: "null", "undefined", "true", *)
(* "false", "" and address strings; the App's isConnected state is a       *)
(* boolean because only the literals true/false are ever stored in it.     *)
(***************************************************************************)
EXTENDS Naturals, FiniteSets, Sequences, TLC

\* ---------------------------------------------------------------- bounds
\* number of handleConnect invocations (clicks on "Connect Wallet") modelled
MaxConnects == 2

\* number of consecutive handleDisconnect calls counted
MaxDiscRun == 2

Procs == 1..MaxConnects

\* ------------------------------------------------------------- JS values
Null == "null"
Undefined == "undefined"

\* strings state().address may carry (the empty string is a string too)
Addresses == {"0xABC", "0xDEF", ""}

\* values isEnabled() may resolve with
IsEnabledValues == {"true", "false", Undefined}

\* values a capability method may throw or reject with
ErrorValues == {Null, Undefined, "errorNoReason", "errorWithReason"}

\* the error the engine raises on a bad property access or call
TypeError == "errorNoReason"

\* values enable() may resolve with: an API object with state(), an object
\* without a callable state, or undefined
ApiOk == "apiWithState"
ApiNoState == "apiWithoutState"
ConnectorAPIs == {ApiOk, ApiNoState, Undefined}

\* values state() may resolve with: an object (with or without an address
\* field) or a nullish value
StateObjects == {[kind |-> "object", address |-> a] : a \in Addresses \cup {Undefined}}
                  \cup {[kind |-> "nullish", address |-> Undefined]}

\* window.midnight: missing, present without mnLace, present with mnLace
Registries == {"missing", "noEntry", "present"}

\* JS truthiness of the values used here
Truthy(v) == v \notin {"false", Null, Undefined, ""}

\* ----------------------------------------------------------------- state
\* isConnected, walletAddress: the App's two useState cells
\* view: what WalletCard rendered at the last commit
\* midnight: window.midnight
\* proc: the handleConnect invocations, their position and locals
\* lastWrite, discRun: who wrote the App's state last, and how many
\* handleDisconnect calls ran since the last write by a handleConnect
VARIABLES isConnected, walletAddress, view, midnight, proc, lastWrite, discRun

vars == <<isConnected, walletAddress, view, midnight, proc, lastWrite, discRun>>

\* ------------------------------------------------------------ WalletCard
\* What WalletCard renders for its props: status text, body (the address
\* paragraph or the placeholder), the single button and its click handler.
WalletCardNoEmptyCheck(connected, address) ==
  [status  |-> IF connected THEN "Connected" ELSE "Disconnected",
   body    |-> IF connected /\ address # Null THEN "address" ELSE "placeholder",
   shown   |-> IF connected /\ address # Null THEN address ELSE Null,
   button  |-> IF connected THEN "Disconnect Wallet" ELSE "Connect Wallet",
   onClick |-> IF connected THEN "onDisconnect" ELSE "onConnect"]

WalletCard(connected, address) ==
  [status  |-> IF connected THEN "Connected" ELSE "Disconnected",
   body    |-> IF connected /\ Truthy(address) THEN "address" ELSE "placeholder",
   shown   |-> IF connected /\ Truthy(address) THEN address ELSE Null,
   button  |-> IF connected THEN "Disconnect Wallet" ELSE "Connect Wallet",
   onClick |-> IF connected THEN "onDisconnect" ELSE "onConnect"]

\* ------------------------------------------------------------------- App
ConnState(c, a) == [connected |-> c, address |-> a]

Current == ConnState(isConnected, walletAddress)

Disconnected == ConnState(FALSE, Null)

\* useState initial values
InitialState == ConnState(FALSE, Null)

\* handleDisconnect: setWalletAddress(null); setIsConnected(false)
handleDisconnectKeepAddress(prev) == [prev EXCEPT !.connected = FALSE]

handleDisconnectToggle(prev) == ConnState(~prev.connected, Null)

handleDisconnect(prev) == [[prev EXCEPT !.address = Null] EXCEPT !.connected = FALSE]

\* the closing writes of handleConnect:
\* setIsConnected(isConnected); setWalletAddress(address)
CommitConnectFirstWins(prev, local) == IF prev.connected THEN prev ELSE local

CommitConnectDropAddress(prev, local) == ConnState(local.connected, Null)

CommitConnect(prev, local) == [[prev EXCEPT !.connected = local.connected] EXCEPT !.address = local.address]

\* const state = await connectorAPI.state(); address = state.address
\* the read throws on a nullish state
AddressReadThrows(state) == state.kind = "nullish"

AddressOf(state) == state.address

\* the catch block: console.log("...", error.reason || error) throws a
\* TypeError itself when error is null or undefined
CatchEscapesAlways(error) == TRUE

CatchEscapes(error) == error \in {Null, Undefined}

\* if (isEnabled)
IsEnabledCheckNotFalse(v) == v # "false"

IsEnabledCheckDropped(v) == TRUE

IsEnabledCheck(v) == Truthy(v)

\* The sequence of states a handler has made observable, one entry per
\* render; React does not render again when a write leaves the state equal.
Observe(seen, s) == IF seen # <<>> /\ seen[Len(seen)] = s THEN seen ELSE Append(seen, s)

Last(seen) == seen[Len(seen)]

\* The handleConnect published in the tutorial's Step 8, run on the same
\* lookups and capability outcomes as the App's handleConnect (it makes the
\* same calls at the same points).  It calls setIsConnected(true) before
\* awaiting state(), so that value is rendered while the call is pending.
TutorialSuspend(seen, at) ==
  IF at = "awaitState"
  THEN Observe(seen, [Last(seen) EXCEPT !.connected = TRUE])
  ELSE seen

\* Its ways out: setWalletAddress(state.address) after state() resolved;
\* setIsConnected(false), setWalletAddress(null) in the else branch and in
\* the catch block, which logs the error itself and so never throws.
TutorialLeave(seen, r, thrown) ==
  IF ~thrown /\ r.isConnected
  THEN Observe(seen, [[Last(seen) EXCEPT !.connected = TRUE] EXCEPT !.address = r.address])
  ELSE Observe(seen, ConnState(FALSE, Null))

\* no state() result yet
NoState == [kind |-> "none", address |-> Undefined]

\* locals of one handleConnect invocation at its start, plus the record of
\* what it has called and observed
NewProc ==
  [pc |-> "idle", called |-> FALSE,
   connectorAPI |-> Undefined, isConnected |-> FALSE, address |-> Null,
   nEnable |-> 0, nIsEnabled |-> 0, nState |-> 0,
   enableRes |-> "none", isEnabledRes |-> "none", stateRes |-> "none",
   reg1 |-> "none", reg2 |-> "none", caught |-> "none", stateVal |-> NoState,
   isEnabledVal |-> "none", inFlightAtDisconnect |-> FALSE,
   appSeen |-> <<>>, tutSeen |-> <<>>]

Finished(p) == proc[p].pc \in {"done", "escaped"}

TypeOK ==
  /\ isConnected \in BOOLEAN
  /\ walletAddress \in Addresses \cup {Null, Undefined}
  /\ midnight \in Registries
  /\ lastWrite \in Procs \cup {0, MaxConnects + 1}
  /\ discRun \in 0..MaxDiscRun
  /\ \A p \in Procs :
       /\ proc[p].pc \in {"idle", "awaitEnable", "awaitIsEnabled", "awaitState", "done", "escaped"}
       /\ proc[p].isConnected \in BOOLEAN
       /\ proc[p].connectorAPI \in ConnectorAPIs

Init ==
  /\ isConnected = InitialState.connected
  /\ walletAddress = InitialState.address
  /\ view = WalletCard(isConnected, walletAddress)
  /\ midnight \in Registries
  /\ proc = [p \in Procs |-> NewProc]
  /\ lastWrite = 0
  /\ discRun = 0

\* lastWrite value marking a write made by handleDisconnect
ByDisconnect == MaxConnects + 1

\* Leaving the try/catch of invocation p with locals r.  thrown says whether
\* the catch block ran, on which error.  If the catch block itself throws,
\* the exception leaves handleConnect and the two setters are never called;
\* otherwise both setters run in one batch and React renders once.
Leave(p, r, thrown, error) ==
  IF thrown /\ CatchEscapes(error)
  THEN /\ proc' = [proc EXCEPT ![p] = [r EXCEPT !.pc = "escaped", !.called = FALSE, !.caught = error,
                                                 !.tutSeen = TutorialLeave(r.tutSeen, r, thrown)]]
       /\ UNCHANGED <<isConnected, walletAddress, view, lastWrite, discRun>>
  ELSE /\ proc' = [proc EXCEPT ![p] = [r EXCEPT !.pc = "done", !.called = FALSE,
                                                 !.caught = IF thrown THEN error ELSE "none",
                                                 !.appSeen = Observe(r.appSeen,
                                                     CommitConnect(Last(r.appSeen), ConnState(r.isConnected, r.address))),
                                                 !.tutSeen = TutorialLeave(r.tutSeen, r, thrown)]]
       /\ isConnected' = CommitConnect(Current, ConnState(r.isConnected, r.address)).connected
       /\ walletAddress' = CommitConnect(Current, ConnState(r.isConnected, r.address)).address
       /\ view' = WalletCard(isConnected', walletAddress')
       /\ lastWrite' = p
       /\ discRun' = 0

\* Suspending invocation p at an await with locals r.
SuspendWritesEarly(p, r, at, isCall) ==
  /\ proc' = [proc EXCEPT ![p] = [r EXCEPT !.pc = at, !.called = isCall,
                                           !.tutSeen = TutorialSuspend(r.tutSeen, at)]]
  /\ isConnected' = r.isConnected
  /\ view' = WalletCard(isConnected', walletAddress)
  /\ UNCHANGED <<walletAddress, lastWrite, discRun>>

Suspend(p, r, at, isCall) ==
  /\ proc' = [proc EXCEPT ![p] = [r EXCEPT !.pc = at, !.called = isCall,
                                           !.tutSeen = TutorialSuspend(r.tutSeen, at)]]
  /\ UNCHANGED <<isConnected, walletAddress, view, lastWrite, discRun>>

\* window.midnight?.mnLace.enable() evaluated by invocation p with locals r;
\* sync is "promise" when enable() returns a promise, or the value it throws.
EvalEnable(p, r, sync) ==
  CASE midnight = "missing" -> Suspend(p, [r EXCEPT !.reg1 = midnight], "awaitEnable", FALSE)
    [] midnight = "noEntry" -> Leave(p, [r EXCEPT !.reg1 = midnight], TRUE, TypeError)
    [] midnight = "present" ->
         IF sync = "promise"
         THEN Suspend(p, [r EXCEPT !.reg1 = midnight, !.nEnable = @ + 1], "awaitEnable", TRUE)
         ELSE Leave(p, [r EXCEPT !.reg1 = midnight, !.nEnable = @ + 1, !.enableRes = "fail"], TRUE, sync)

\* window.midnight?.mnLace.isEnabled()
EvalIsEnabled(p, r, sync) ==
  CASE midnight = "missing" -> Suspend(p, [r EXCEPT !.reg2 = midnight], "awaitIsEnabled", FALSE)
    [] midnight = "noEntry" -> Leave(p, [r EXCEPT !.reg2 = midnight], TRUE, TypeError)
    [] midnight = "present" ->
         IF sync = "promise"
         THEN Suspend(p, [r EXCEPT !.reg2 = midnight, !.nIsEnabled = @ + 1], "awaitIsEnabled", TRUE)
         ELSE Leave(p, [r EXCEPT !.reg2 = midnight, !.nIsEnabled = @ + 1, !.isEnabledRes = "fail"], TRUE, sync)

\* connectorAPI.state()
EvalState(p, r, sync) ==
  IF r.connectorAPI # ApiOk
  THEN Leave(p, r, TRUE, TypeError)
  ELSE IF sync = "promise"
       THEN Suspend(p, [r EXCEPT !.nState = @ + 1], "awaitState", TRUE)
       ELSE Leave(p, [r EXCEPT !.nState = @ + 1, !.stateRes = "fail"], TRUE, sync)

SyncOutcomes == {"promise"} \cup ErrorValues

\* Invocation q awaits a plain undefined (the registry was missing at its
\* lookup): its continuation is a microtask already queued, and the event
\* loop runs it before any other task.
MicrotaskQueued(q) ==
  /\ proc[q].pc \in {"awaitEnable", "awaitIsEnabled"}
  /\ ~proc[q].called

\* a new task (click, promise settled by the wallet, registry change) runs
TaskTurn == \A q \in Procs : ~MicrotaskQueued(q)

\* invocation p may be resumed
Resumable(p) == \A q \in Procs : q # p => ~MicrotaskQueued(q)

\* the Connect button is clicked: handleConnect runs up to its first await
CanClickConnect == view.onClick = "onConnect"

StartConnect(p) ==
  /\ TaskTurn
  /\ CanClickConnect
  /\ proc[p].pc = "idle"
  /\ \A q \in Procs : q < p => proc[q].pc # "idle"
  /\ \E sync \in SyncOutcomes :
       EvalEnable(p, [NewProc EXCEPT !.appSeen = <<Current>>, !.tutSeen = <<Current>>], sync)
  /\ UNCHANGED midnight

\* the awaited enable() promise (or the awaited undefined) settles
EnableResolves(p) ==
  /\ proc[p].pc = "awaitEnable"
  /\ Resumable(p)
  /\ \E api \in ConnectorAPIs, sync \in SyncOutcomes :
       /\ ~proc[p].called => api = Undefined
       /\ EvalIsEnabled(p, [proc[p] EXCEPT !.connectorAPI = api,
                                           !.enableRes = IF proc[p].called THEN "ok" ELSE "none"], sync)
  /\ UNCHANGED midnight

EnableRejects(p) ==
  /\ proc[p].pc = "awaitEnable"
  /\ Resumable(p)
  /\ proc[p].called
  /\ \E e \in ErrorValues : Leave(p, [proc[p] EXCEPT !.enableRes = "fail"], TRUE, e)
  /\ UNCHANGED midnight

\* the awaited isEnabled() promise (or the awaited undefined) settles; on a
\* falsy value no further call is made, so only one outcome is enumerated
IsEnabledResolves(p) ==
  /\ proc[p].pc = "awaitIsEnabled"
  /\ Resumable(p)
  /\ \E v \in IsEnabledValues, sync \in SyncOutcomes :
       /\ ~proc[p].called => v = Undefined
       /\ LET res == IF ~proc[p].called THEN "none" ELSE IF IsEnabledCheck(v) THEN "true" ELSE "false"
              val == IF proc[p].called THEN v ELSE "none"
          IN IF IsEnabledCheck(v)
             THEN EvalState(p, [proc[p] EXCEPT !.isEnabledRes = res, !.isEnabledVal = val,
                                               !.isConnected = TRUE], sync)
             ELSE /\ sync = "promise"
                  /\ Leave(p, [proc[p] EXCEPT !.isEnabledRes = res, !.isEnabledVal = val], FALSE, "none")
  /\ UNCHANGED midnight

IsEnabledRejects(p) ==
  /\ proc[p].pc = "awaitIsEnabled"
  /\ Resumable(p)
  /\ proc[p].called
  /\ \E e \in ErrorValues : Leave(p, [proc[p] EXCEPT !.isEnabledRes = "fail"], TRUE, e)
  /\ UNCHANGED midnight

\* the awaited state() promise settles
StateResolves(p) ==
  /\ proc[p].pc = "awaitState"
  /\ Resumable(p)
  /\ \E s \in StateObjects :
       IF AddressReadThrows(s)
       THEN Leave(p, [proc[p] EXCEPT !.stateRes = "ok", !.stateVal = s], TRUE, TypeError)
       ELSE Leave(p, [proc[p] EXCEPT !.stateRes = "ok", !.stateVal = s, !.address = AddressOf(s)], FALSE, "none")
  /\ UNCHANGED midnight

StateRejects(p) ==
  /\ proc[p].pc = "awaitState"
  /\ Resumable(p)
  /\ \E e \in ErrorValues : Leave(p, [proc[p] EXCEPT !.stateRes = "fail"], TRUE, e)
  /\ UNCHANGED midnight

\* handleDisconnect applied to the App's state, followed by the render
ApplyDisconnect ==
  /\ isConnected' = handleDisconnect(Current).connected
  /\ walletAddress' = handleDisconnect(Current).address
  /\ view' = WalletCard(isConnected', walletAddress')
  /\ lastWrite' = ByDisconnect
  /\ discRun' = discRun + 1
  /\ UNCHANGED midnight

\* the Disconnect button is clicked; the handshakes in flight are left
\* running and noted as such
Disconnect ==
  /\ TaskTurn
  /\ view.onClick = "onDisconnect"
  /\ ApplyDisconnect
  /\ proc' = [p \in Procs |->
                IF proc[p].pc \in {"awaitEnable", "awaitIsEnabled", "awaitState"}
                THEN [proc[p] EXCEPT !.inFlightAtDisconnect = TRUE]
                ELSE proc[p]]

\* the wallet extension injects, replaces or removes window.midnight
SetRegistry ==
  /\ TaskTurn
  /\ \E r \in Registries : r # midnight /\ midnight' = r
  /\ UNCHANGED <<isConnected, walletAddress, view, proc, lastWrite, discRun>>

Next ==
  \/ \E p \in Procs : StartConnect(p)
  \/ \E p \in Procs : EnableResolves(p)
  \/ \E p \in Procs : EnableRejects(p)
  \/ \E p \in Procs : IsEnabledResolves(p)
  \/ \E p \in Procs : IsEnabledRejects(p)
  \/ \E p \in Procs : StateResolves(p)
  \/ \E p \in Procs : StateRejects(p)
  \/ Disconnect
  \/ SetRegistry

Spec == Init /\ [][Next]_vars

\* Every awaited promise settles and the event loop then resumes the
\* suspended handleConnect.
Fairness ==
  \A p \in Procs :
    /\ WF_vars(EnableResolves(p) \/ EnableRejects(p))
    /\ WF_vars(IsEnabledResolves(p) \/ IsEnabledRejects(p))
    /\ WF_vars(StateResolves(p) \/ StateRejects(p))

FairSpec == Spec /\ Fairness

\* ---------------------------------------------------------------------
\* The components exercised directly: WalletCard mounted with any props of
\* its declared type, and handleDisconnect called whatever is rendered.
InitProps ==
  /\ isConnected \in BOOLEAN
  /\ walletAddress \in Addresses \cup {Null}
  /\ view = WalletCard(isConnected, walletAddress)
  /\ midnight \in Registries
  /\ proc = [p \in Procs |-> NewProc]
  /\ lastWrite = 0
  /\ discRun = 0

CallDisconnect ==
  /\ TaskTurn
  /\ discRun < MaxDiscRun
  /\ ApplyDisconnect
  /\ UNCHANGED proc

\* a run of this kind makes one connect attempt
OneHandshake == \A p \in Procs : p > 1 => proc[p].pc = "idle"

NextProps == (Next /\ OneHandshake') \/ CallDisconnect

SpecProps == InitProps /\ [][NextProps]_vars

\* =====================================================================
\* Properties

\* step on which invocation p leaves handleConnect (writes or escapes)
Ends(p) == proc[p].pc \notin {"done", "escaped"} /\ proc'[p].pc \in {"done", "escaped"}

\* C1: a connect whose enable(), isEnabled() (true) and state() (address A)
\* all succeeded, and after which nobody else wrote the state, has left the
\* state exactly {connected: true, address: A}.
C1_RoundTrip ==
  \A p \in Procs :
    ( /\ proc[p].pc = "done"
      /\ proc[p].enableRes = "ok"
      /\ proc[p].isEnabledRes = "true"
      /\ proc[p].stateRes = "ok"
      /\ proc[p].stateVal.kind = "object"
      /\ proc[p].stateVal.address \in Addresses
      /\ lastWrite = p )
    => Current = ConnState(TRUE, proc[p].stateVal.address)

C1_Witness ==
  \E p \in Procs :
    /\ proc[p].pc = "done"
    /\ proc[p].enableRes = "ok"
    /\ proc[p].isEnabledRes = "true"
    /\ proc[p].stateRes = "ok"
    /\ proc[p].stateVal = [kind |-> "object", address |-> "0xABC"]
    /\ lastWrite = p
    /\ Current = ConnState(TRUE, "0xABC")

\* C2: when enable() rejects or throws, the connect calls neither
\* isEnabled() nor state(), and the state right after that connect is
\* {connected: false, address: absent} whatever it was before.
C2_EnableFailureDisconnects ==
  [][\A p \in Procs :
       (Ends(p) /\ proc'[p].enableRes = "fail")
       => /\ proc'[p].nIsEnabled = 0
          /\ proc'[p].nState = 0
          /\ isConnected' = FALSE
          /\ walletAddress' = Null]_vars

\* C3: when enable() succeeded and isEnabled() returned true but state()
\* rejects or throws, or there is no usable state(), the state right after
\* that connect is {connected: false, address: absent}.
C3_StateFailureDisconnects ==
  [][\A p \in Procs :
       ( /\ Ends(p)
         /\ proc'[p].pc = "done"
         /\ proc'[p].isEnabledRes = "true"
         /\ proc'[p].caught # "none" )
       => (isConnected' = FALSE /\ walletAddress' = Null)]_vars

\* C4: no failure of enable(), isEnabled() or state(), whatever the value
\* thrown or rejected with, escapes handleConnect: every invocation that
\* left the try/catch went on to the final write.
C4_NoEscape ==
  \A p \in Procs : proc[p].caught # "none" => proc[p].pc = "done"

\* C5: a connect that finds window.midnight missing, or without mnLace, at
\* its lookups calls no capability method, does not throw, and resolves to
\* {connected: false, address: absent}.
CapabilityAbsent(p) ==
  /\ proc[p].reg1 \in {"missing", "noEntry"}
  /\ proc[p].reg2 \in {"none", "missing", "noEntry"}

C5_CapabilityAbsent ==
  \A p \in Procs :
    CapabilityAbsent(p)
    => /\ proc[p].nEnable = 0 /\ proc[p].nIsEnabled = 0 /\ proc[p].nState = 0
       /\ proc[p].pc # "escaped"
       /\ proc[p].pc # "awaitState"
       /\ ~proc[p].isConnected /\ proc[p].address = Null
       /\ (proc[p].pc = "done" /\ lastWrite = p) => Current = Disconnected

C5_Witness ==
  \E p, q \in Procs :
    /\ CapabilityAbsent(p) /\ proc[p].reg1 = "missing" /\ proc[p].reg2 = "missing"
    /\ proc[p].pc = "done" /\ lastWrite = p
    /\ CapabilityAbsent(q) /\ proc[q].reg1 = "noEntry" /\ proc[q].pc = "done"
    /\ Current = Disconnected

\* C6: in every reachable state the address is present only if connected
\* is true.
C6_AddressOnlyIfConnected ==
  ~isConnected => walletAddress = Null

\* a failing connect has overwritten the state a successful one had set
C6_Witness ==
  \E p, q \in Procs :
    /\ p # q
    /\ lastWrite = p /\ proc[p].pc = "done" /\ ~proc[p].isConnected
    /\ proc[q].pc = "done" /\ proc[q].isConnected /\ proc[q].address \in Addresses
    /\ Current = Disconnected

\* C7: provided every capability call settles, every started connect
\* eventually completes with the write of the state.
C7_ConnectCompletes ==
  \A p \in Procs : (proc[p].pc # "idle") ~> (proc[p].pc = "done")

\* C8: every connect makes its own capability calls whatever other connects
\* are outstanding, and the state equals the result of the connect that
\* resolved last.
C8_LastResolvedWins ==
  \A p \in Procs :
    /\ proc[p].reg1 = "present" => proc[p].nEnable = 1
    /\ proc[p].reg2 = "present" => proc[p].nIsEnabled = 1
    /\ (proc[p].isEnabledRes = "true" /\ proc[p].connectorAPI = ApiOk) => proc[p].nState = 1
    /\ ((\A q \in Procs : proc[q].pc = "done") /\ lastWrite = p)
         => Current = ConnState(proc[p].isConnected, proc[p].address)

\* the connect started first resolved last, and its result is the state
C8_Witness ==
  /\ \A q \in Procs : proc[q].pc = "done" /\ proc[q].nEnable = 1 /\ proc[q].nIsEnabled = 1
  /\ lastWrite = 1
  /\ proc[1].isConnected /\ proc[1].nState = 1 /\ proc[1].address = "0xABC"
  /\ \E q \in Procs : q # 1 /\ ~proc[q].isConnected
  /\ Current = ConnState(TRUE, "0xABC")

\* C9: handleDisconnect yields {connected: false, address: absent} from
\* every state, and applying it twice gives what applying it once gives.
C9_DisconnectResets ==
  /\ discRun >= 1 => Current = Disconnected
  /\ handleDisconnect(Current) = Disconnected
  /\ handleDisconnect(handleDisconnect(Current)) = handleDisconnect(Current)

C9_Witness ==
  /\ discRun = 2
  /\ Current = Disconnected

\* C10: WalletCard shows one button, Connect wired to onConnect iff not
\* connected and Disconnect wired to onDisconnect iff connected; the status
\* is "Connected" iff connected; the address is shown iff connected and the
\* address is neither null nor empty.
AddressPresent == walletAddress \notin {Null, Undefined, ""}

C10_WalletCardRendering ==
  /\ view = WalletCard(isConnected, walletAddress)
  /\ (view.button = "Connect Wallet" /\ view.onClick = "onConnect") <=> ~isConnected
  /\ (view.button = "Disconnect Wallet" /\ view.onClick = "onDisconnect") <=> isConnected
  /\ view.button \in {"Connect Wallet", "Disconnect Wallet"}
  /\ view.status = "Connected" <=> isConnected
  /\ view.status \in {"Connected", "Disconnected"}
  /\ view.body = "address" <=> (isConnected /\ AddressPresent)
  /\ view.body = "address" => view.shown = walletAddress
  /\ view.body = "placeholder" => view.shown = Null

\* connected with an empty address: the placeholder is shown
C10_Witness ==
  /\ isConnected
  /\ walletAddress = ""
  /\ view.body = "placeholder"
  /\ view.button = "Disconnect Wallet"

C12_NotEnabledDisconnects ==
  \A p \in Procs :
    ( /\ proc[p].enableRes = "ok"
      /\ proc[p].nIsEnabled = 1
      /\ proc[p].isEnabledVal \in {"false", Undefined} )
    => /\ proc[p].nState = 0
       /\ proc[p].pc = "done"
       /\ ~proc[p].isConnected /\ proc[p].address = Null
       /\ lastWrite = p => Current = Disconnected

C12_Witness ==
  \E p, q \in Procs :
    /\ proc[p].enableRes = "ok" /\ proc[p].nIsEnabled = 1 /\ proc[p].isEnabledVal = "false"
    /\ proc[p].nState = 0 /\ lastWrite = p /\ Current = Disconnected
    /\ proc[q].enableRes = "ok" /\ proc[q].nIsEnabled = 1 /\ proc[q].isEnabledVal = Undefined
    /\ proc[q].pc = "done"

\* C13: within one connect, isEnabled() is called only after enable() was
\* called and resolved, state() only after isEnabled() resolved true and on
\* the object enable() returned, and each method at most once.
C13_HandshakeOrder ==
  \A p \in Procs :
    /\ proc[p].nEnable <= 1 /\ proc[p].nIsEnabled <= 1 /\ proc[p].nState <= 1
    /\ proc[p].nIsEnabled = 1 => (proc[p].nEnable = 1 /\ proc[p].enableRes = "ok")
    /\ proc[p].nState = 1 =>
         /\ proc[p].nEnable = 1 /\ proc[p].enableRes = "ok"
         /\ proc[p].nIsEnabled = 1 /\ proc[p].isEnabledVal = "true"
         /\ proc[p].connectorAPI = ApiOk
    /\ (proc[p].pc = "awaitEnable" /\ proc[p].called) => (proc[p].nIsEnabled = 0 /\ proc[p].nState = 0)
    /\ (proc[p].pc = "awaitIsEnabled" /\ proc[p].called) => proc[p].nState = 0

C13_Witness ==
  \E p \in Procs :
    /\ proc[p].pc = "done"
    /\ proc[p].nEnable = 1 /\ proc[p].nIsEnabled = 1 /\ proc[p].nState = 1
    /\ proc[p].stateRes = "ok"
    /\ proc[p].connectorAPI = ApiOk

\* C14 (as stated): a handshake that was in flight when disconnect ran never
\* sets the state back to connected.
C14_DisconnectFinal ==
  \A p \in Procs : (lastWrite = p /\ proc[p].inFlightAtDisconnect) => ~isConnected

\* C14 (amended): after a disconnect the state stays
\* {connected: false, address: absent} until the next connect resolves; a
\* handshake in flight at the disconnect is not cancelled, and when it
\* resolves the state becomes its result.
C14_DisconnectUntilNextResolve ==
  /\ lastWrite = ByDisconnect => Current = Disconnected
  /\ \A p \in Procs :
       (lastWrite = p /\ proc[p].inFlightAtDisconnect)
       => (proc[p].pc = "done" /\ Current = ConnState(proc[p].isConnected, proc[p].address))

\* a handshake in flight at the disconnect has set the state to connected
C14_Witness ==
  \E p \in Procs :
    /\ lastWrite = p
    /\ proc[p].inFlightAtDisconnect
    /\ Current = ConnState(TRUE, "0xDEF")

\* C15: whenever connected is true the address is non-null, and the card
\* never shows "Connected" and the Disconnect button with the placeholder.
C15_ConnectedHasAddress ==
  isConnected =>
    /\ walletAddress # Null
    /\ ~(view.status = "Connected" /\ view.button = "Disconnect Wallet" /\ view.body = "placeholder")

\* C16: on the same capability outcomes the tutorial's handleConnect and
\* the App's handleConnect end in the same state and make the same sequence
\* of states observable.
C16_TutorialEquivalent ==
  \A p \in Procs :
    Finished(p) =>
      /\ Last(proc[p].appSeen) = Last(proc[p].tutSeen)
      /\ proc[p].appSeen = proc[p].tutSeen

====
